---- MODULE Spec2Model ----
(***************************************************************************)
(* excel2sql: migration of the sheets of a workbook into the tables of a   *)
(* database (src/src/utils.rs).  Strings are sequences of one-character    *)
(* strings, so that the character-level functions (sanitising, lower-      *)
(* casing, file stems, prefixes) are computed as the code computes them.   *)
(***************************************************************************)
EXTENDS Integers, Sequences, FiniteSets, TLC

VARIABLES
    file,     \* the workbook on disk: [ok, sheets], each sheet [name, range]
    opts,     \* Opts: [excel, clear, skip, django_style]
    pc,       \* position of parse(): "parse_excel", "spawn", "join", "exit"
    tables,   \* the Vec<Table> returned by parse_excel
    cur,      \* index of the table the for loop of parse() is at
    w,        \* one record per spawned worker thread, in spawn order
    db,       \* rows held by the database, each [table, vals], in insert order
    out,      \* lines printed to standard output
    probe     \* harness of the pure functions (iter_rows, table names)

vars == <<file, opts, pc, tables, cur, w, db, out, probe>>

-----------------------------------------------------------------------------
(* Bounds of the model.                                                    *)

MaxCells == 4       \* cells of a range, and of a whole workbook
MaxFairCells == 2   \* cells of a whole workbook in the runs checked for progress
MaxCols == 1        \* columns of a range
MaxSkip == 1        \* largest --skip value of an import run
MaxProbeSkip == 2   \* largest skip handed to iter_rows alone
MaxCalls == 2       \* successive iter_rows calls on one table
MaxPathLen == 3     \* characters of the --excel path
MaxNameLen == 2     \* characters of a raw table name

Max(a, b) == IF a >= b THEN a ELSE b
Min(a, b) == IF a <= b THEN a ELSE b

SeqsUpTo(S, n) == UNION {[1..k -> S] : k \in 0..n}

-----------------------------------------------------------------------------
(* Cells and ranges (calamine::DataType, calamine::Range).                 *)

Str(s) == [tag |-> "String", v |-> s]
Int7 == [tag |-> "Int", v |-> <<"7">>]
ErrCell == [tag |-> "Error", v |-> <<>>]

Cells == {Str(<<"n">>), Int7, ErrCell}

\* A range is rectangular: a sequence of rows of one width.
Ranges ==
    {<<>>} \cup UNION {UNION {[1..r -> [1..c -> Cells]] : r \in 1..(MaxCells \div c)} :
                          c \in 1..MaxCols}

CellCount(range) == IF range = <<>> THEN 0 ELSE Len(range) * Len(range[1])

\* Deserialising one row into Vec<DataType>: an Error cell fails the row.
RowOk(row) == \A i \in 1..Len(row) : row[i].tag # "Error"

DeserRow(row) == IF RowOk(row) THEN [ok |-> TRUE, row |-> row]
                 ELSE [ok |-> FALSE, row |-> <<>>]

-----------------------------------------------------------------------------
(* Characters.  NonAscii stands for one non-ASCII character.               *)

NonAscii == "U+00E9"

UpperCase == <<"A", "B", "C", "D", "E", "F", "G", "H", "I", "J", "K", "L", "M",
               "N", "O", "P", "Q", "R", "S", "T", "U", "V", "W", "X", "Y", "Z">>

LowerCase == <<"a", "b", "c", "d", "e", "f", "g", "h", "i", "j", "k", "l", "m",
               "n", "o", "p", "q", "r", "s", "t", "u", "v", "w", "x", "y", "z">>

\* The lower-case letter of every upper-case letter.
UpperToLower ==
    [c \in {UpperCase[i] : i \in 1..Len(UpperCase)} |->
        LowerCase[CHOOSE i \in 1..Len(UpperCase) : UpperCase[i] = c]]

\* Every upper-case letter goes to its lower-case letter, every other
\* character of the model (lower-case letters, digits, punctuation, NonAscii,
\* which stands for a lower-case letter) stays.
to_lowercase_char(c) == IF c \in DOMAIN UpperToLower THEN UpperToLower[c] ELSE c

\* str::to_lowercase
to_lowercase(s) == [i \in 1..Len(s) |-> to_lowercase_char(s[i])]

is_ascii(c) == c # NonAscii

-----------------------------------------------------------------------------
(* Table (utils.rs 48-100).                                                *)

\* RangeDeserializerBuilder::from_range: with headers (the builder's default)
\* the first row is read as the header row when the iterator is built, and
\* the rows that follow are the ones it yields; has_headers(false) yields
\* every row.  The header cells are read as strings, which every cell but an
\* Error cell converts to: an Error cell in the header row fails the
\* construction.
from_range(range, has_headers) ==
    IF has_headers /\ range # <<>>
    THEN [ok |-> RowOk(range[1]), pos |-> 2]
    ELSE [ok |-> TRUE, pos |-> 1]

\* The header cells that are DataType::String, in column order.
HeaderFields(row) ==
    LET F[i \in 0..Len(row)] ==
            IF i = 0 THEN <<>>
            ELSE IF row[i].tag = "String" THEN Append(F[i - 1], row[i].v)
                 ELSE F[i - 1]
    IN F[Len(row)]

\* The table name: the ASCII characters of the sheet name but ( and ).
Sanitize(table_name) ==
    SelectSeq(table_name, LAMBDA c : is_ascii(c) /\ c # "(" /\ c # ")")

\* Table::new
TableNew(table_name, range) ==
    LET iter == from_range(range, FALSE)
        first == IF iter.pos <= Len(range) THEN DeserRow(range[iter.pos])
                 ELSE [ok |-> TRUE, row |-> <<>>]
    IN  IF ~first.ok
        THEN [ok |-> FALSE, name |-> <<>>, fields |-> <<>>, range |-> <<>>]
        ELSE [ok |-> TRUE, name |-> Sanitize(table_name),
              fields |-> HeaderFields(first.row), range |-> range]

\* iter_rows without the .skip(skip).
iter_rows_ignoring_skip(table, skip) ==
    LET d == from_range(table.range, TRUE)
    IN  [ok |-> d.ok, pos |-> d.pos, n |-> 0]

\* Table::iter_rows: a fresh deserialising iterator over the stored range,
\* wrapped in Skip; n is the number of elements Skip still has to discard.
iter_rows(table, skip) ==
    LET d == from_range(table.range, TRUE)
    IN  [ok |-> d.ok, pos |-> d.pos, n |-> skip]

\* Skip::next: discards the pending n elements, then reads one row.
\* The result is the element (some = FALSE at the end) and the iterator after.
IterNext(range, it) ==
    LET at == Min(it.pos + it.n, Len(range) + 1)
    IN  IF at <= Len(range)
        THEN [some |-> TRUE, item |-> DeserRow(range[at]),
              it |-> [ok |-> TRUE, pos |-> at + 1, n |-> 0]]
        ELSE [some |-> FALSE, item |-> DeserRow(<<>>),
              it |-> [ok |-> TRUE, pos |-> at, n |-> 0]]

\* Table::to_django_style_fields
to_django_style_fields(fields) ==
    [i \in 1..Len(fields) |->
        IF fields[i] # <<"i", "d">> THEN <<"c", "_">> \o fields[i] ELSE fields[i]]

-----------------------------------------------------------------------------
(* Table names (utils.rs 199-211).                                         *)

\* The components of a path, as Path::components sees them for file_name:
\* separators and "." components are dropped.
RECURSIVE Split(_, _)
Split(p, acc) ==
    IF p = <<>> THEN <<acc>>
    ELSE IF Head(p) = "/" THEN <<acc>> \o Split(Tail(p), <<>>)
         ELSE Split(Tail(p), Append(acc, Head(p)))

Components(p) == SelectSeq(Split(p, <<>>), LAMBDA c : c # <<>> /\ c # <<".">>)

\* Path::file_name: the last component when it is a normal one.
file_name(p) ==
    LET cs == Components(p)
    IN  IF cs = <<>> \/ cs[Len(cs)] = <<".", ".">>
        THEN [some |-> FALSE, v |-> <<>>]
        ELSE [some |-> TRUE, v |-> cs[Len(cs)]]

LastDot(name) ==
    LET D == {i \in 1..Len(name) : name[i] = "."}
    IN  IF D = {} THEN 0 ELSE CHOOSE i \in D : \A j \in D : j <= i

\* Path::file_stem, then .or(Some("")) ... .unwrap_or("")
file_stem(p) ==
    LET f == file_name(p)
        d == LastDot(f.v)
    IN  IF ~f.some THEN <<>>
        ELSE IF d <= 1 THEN f.v
             ELSE SubSeq(f.v, 1, d - 1)

\* make_django_style_table_name without the to_lowercase().
make_django_style_table_name_keeping_case(filepath, table_name) ==
    file_stem(filepath) \o <<"_">> \o table_name

\* make_django_style_table_name: the stem as written, "_", the name lowered.
make_django_style_table_name(filepath, table_name) ==
    file_stem(filepath) \o <<"_">> \o to_lowercase(table_name)

-----------------------------------------------------------------------------
(* SQL (utils.rs 148-197).  A statement is kept by its parts: kind, table, *)
(* the column identifiers and the value literals.                          *)

Null == <<"n", "u", "l", "l">>

\* The literal make_insert_sql writes for one cell.
Literal(cell) ==
    CASE cell.tag = "String" -> <<"\"">> \o cell.v \o <<"\"">>
      [] cell.tag = "Bool"   -> IF cell.v = <<"t", "r", "u", "e">> THEN <<"1">>
                                ELSE <<"0">>
      [] cell.tag = "Int"    -> cell.v
      [] cell.tag = "Float"  -> cell.v
      [] OTHER               -> Null

\* make_insert_sql: every field between backticks, every cell as a literal.
make_insert_sql(table_name, fields, row) ==
    [kind |-> "INSERT", table |-> table_name, cols |-> fields,
     vals |-> [i \in 1..Len(row) |-> Literal(row[i])]]

DeleteSql(table_name) ==
    [kind |-> "DELETE", table |-> table_name, cols |-> <<>>, vals |-> <<>>]

ShowTablesSql(table_name) ==
    [kind |-> "SHOW", table |-> table_name, cols |-> <<>>, vals |-> <<>>]

\* check_table_exists without the is_none() branch.
check_table_exists_accepting_none(lookup) ==
    IF lookup = "Err" THEN "Err" ELSE "Ok"

\* check_table_exists, from what first_exec returned: "Err" (the query
\* failed), "None" (no row) or "Some" (a row).
check_table_exists(lookup) ==
    CASE lookup = "Err"  -> "Err"
      [] lookup = "None" -> "Err"
      [] OTHER           -> "Ok"

\* The rows of one table held by the database.
RowsOf(d, table_name) ==
    LET sel == SelectSeq(d, LAMBDA r : r.table = table_name)
    IN  [i \in 1..Len(sel) |-> sel[i].vals]

\* What the database holds after a statement that succeeded.
Applied(d, stmt) ==
    CASE stmt.kind = "INSERT" -> Append(d, [table |-> stmt.table, vals |-> stmt.vals])
      [] stmt.kind = "DELETE" -> SelectSeq(d, LAMBDA r : r.table # stmt.table)
      [] OTHER                -> d

-----------------------------------------------------------------------------
(* import_table_to_database (utils.rs 117-146), one step per statement.    *)

NoResult == [tag |-> "None", count |-> 0, name |-> <<>>]
ErrResult == [tag |-> "Err", count |-> 0, name |-> <<>>]
OkResult(count, name) == [tag |-> "Ok", count |-> count, name |-> name]
NoIter == [ok |-> TRUE, pos |-> 1, n |-> 0]

\* The resolved table name (122-126).
ResolvedName(o, table) ==
    IF o.django_style THEN make_django_style_table_name(o.excel, table.name)
    ELSE table.name

\* The import without the if opts.clear block.
AfterCheckNeverClearing(o) == "rows"

\* Where the import goes after the existence check succeeded (130-135).
AfterCheck(o) == IF o.clear THEN "clear" ELSE "rows"

\* The DELETE without its ?.
AfterClearIgnoringFailure(ok) == "rows"

\* Where the import goes after the DELETE (the ? of 131): on to the rows, or
\* out with the error.
AfterClear(ok) == IF ok THEN "rows" ELSE "ret"

\* The INSERT without its ?.
AfterExecIgnoringFailure(ok) == "rows"

\* Where the import goes after an INSERT (the ? of 139): on with the rows, or
\* out with the error.
AfterExec(ok) == IF ok THEN "rows" ELSE "ret"

\* The counter incremented outside the if let Ok(r).
CountAfterCountingAll(count, rowOk) == count + 1

\* The counter after a row read from the iterator (136-142).
CountAfter(count, rowOk) == IF rowOk THEN count + 1 ELSE count

\* The closure without its Err arm.
ReportLineSilentOnError(i, res) ==
    IF res.tag = "Ok"
    THEN <<[worker |-> i, ok |-> TRUE, count |-> res.count, name |-> res.name]>>
    ELSE <<>>

\* The line the worker's closure prints for a result (238-241).
ReportLine(i, res) ==
    IF res.tag = "Ok"
    THEN <<[worker |-> i, ok |-> TRUE, count |-> res.count, name |-> res.name]>>
    ELSE <<[worker |-> i, ok |-> FALSE, count |-> 0, name |-> <<>>]>>

Issued(stmt, ok, found) ==
    [kind |-> stmt.kind, table |-> stmt.table, cols |-> stmt.cols,
     vals |-> stmt.vals, ok |-> ok, found |-> found]

\* The worker entering the row loop (135): iter_rows, whose error returns.
EnterRows(wr, table, o) ==
    LET it == iter_rows(table, o.skip)
    IN  IF it.ok THEN [wr EXCEPT !.pc = "rows", !.it = it]
        ELSE [wr EXCEPT !.pc = "ret", !.res = ErrResult]

\* The worker after the DELETE, and after an INSERT.
Cleared(wr, table, o, ok) ==
    IF AfterClear(ok) = "ret" THEN [wr EXCEPT !.pc = "ret", !.res = ErrResult]
    ELSE EnterRows(wr, table, o)

Inserted(wr, ok) ==
    IF AfterExec(ok) = "ret" THEN [wr EXCEPT !.pc = "ret", !.res = ErrResult]
    ELSE [wr EXCEPT !.pc = "rows"]

-----------------------------------------------------------------------------
(* The inputs: a workbook and the options.                                 *)

MainPath == <<"d", "/", "M", ".", "x">>

\* The names of the sheets of the workbook, in file order.
SheetNames == << <<"T", "(">>, <<"t">> >>

SheetCounts == 0..Len(SheetNames)

RECURSIVE TotalCells(_)
TotalCells(rs) ==
    IF rs = <<>> THEN 0 ELSE CellCount(Head(rs)) + TotalCells(Tail(rs))

\* What worksheet_range gives for a sheet: its range, or nothing (the sheet
\* does not resolve).
SheetContents ==
    [resolves : {TRUE}, range : Ranges] \cup {[resolves |-> FALSE, range |-> <<>>]}

Workbooks(cells) ==
    {[i \in 1..Len(cs) |-> [name |-> SheetNames[i], resolves |-> cs[i].resolves,
                            range |-> cs[i].range]] :
        cs \in {x \in UNION {[1..k -> SheetContents] : k \in SheetCounts} :
                   TotalCells([i \in 1..Len(x) |-> x[i].range]) <= cells}}

\* A file that does not open, or a workbook.
Files(cells) ==
    {[ok |-> FALSE, sheets |-> <<>>]} \cup [ok : {TRUE}, sheets : Workbooks(cells)]

OptsSet == [excel : {MainPath}, clear : BOOLEAN, skip : 0..MaxSkip,
            django_style : BOOLEAN]

NoProbe == [kind |-> "none"]

Start ==
    /\ opts \in OptsSet
    /\ pc = "parse_excel"
    /\ tables = <<>>
    /\ cur = 1
    /\ w = <<>>
    /\ db = <<>>
    /\ out = <<>>
    /\ probe = NoProbe

Init == file \in Files(MaxCells) /\ Start

FairInit == file \in Files(MaxFairCells) /\ Start

-----------------------------------------------------------------------------
(* parse_excel (102-115) and parse (213-249).                              *)

\* parse_excel: a file that does not open fails the parse; a sheet that
\* does not resolve is skipped with a warning; a sheet whose Table::new fails
\* fails the whole parse; the tables stay in sheet order.
parse_excel(f) ==
    LET found == SelectSeq(f.sheets, LAMBDA sh : sh.resolves)
        ts == [i \in 1..Len(found) |-> TableNew(found[i].name, found[i].range)]
    IN  IF f.ok /\ \A i \in 1..Len(ts) : ts[i].ok
        THEN [ok |-> TRUE,
              tables |-> [i \in 1..Len(ts) |->
                  [name |-> ts[i].name, fields |-> ts[i].fields,
                   range |-> ts[i].range]]]
        ELSE [ok |-> FALSE, tables |-> <<>>]

ParseErrorLine == [worker |-> 0, ok |-> FALSE, count |-> 0, name |-> <<>>]

\* parse, 225-227 and 246-248: the workbook is parsed whole before the loop.
ParseExcel ==
    /\ pc = "parse_excel"
    /\ LET r == parse_excel(file)
       IN  IF r.ok
           THEN /\ tables' = r.tables
                /\ pc' = "spawn"
                /\ out' = out
           ELSE /\ tables' = tables
                /\ pc' = "exit"
                /\ out' = Append(out, ParseErrorLine)
    /\ UNCHANGED <<file, opts, cur, w, db, probe>>

NewWorker ==
    [pc |-> "check", name |-> <<>>, it |-> NoIter, count |-> 0, stmts |-> <<>>,
     res |-> NoResult, db0 |-> <<>>, db1 |-> <<>>]

\* parse, 228-242: the fields are renamed, the table moves into a new thread.
Spawn ==
    /\ pc = "spawn"
    /\ cur <= Len(tables)
    /\ tables' = IF opts.django_style
                 THEN [tables EXCEPT ![cur].fields = to_django_style_fields(@)]
                 ELSE tables
    /\ w' = Append(w, NewWorker)
    /\ pc' = "join"
    /\ UNCHANGED <<file, opts, cur, db, out, probe>>

\* parse, 244: th.join() blocks the loop until the thread has finished.
Join ==
    /\ pc = "join"
    /\ w[cur].pc = "done"
    /\ cur' = cur + 1
    /\ pc' = "spawn"
    /\ UNCHANGED <<file, opts, tables, w, db, out, probe>>

\* parse, 245-249: the loop is over.
Exit ==
    /\ pc = "spawn"
    /\ cur > Len(tables)
    /\ pc' = "exit"
    /\ UNCHANGED <<file, opts, tables, cur, w, db, out, probe>>

\* import_table_to_database, 122-128: the name is resolved and looked up.
CheckTableExists(i) ==
    /\ w[i].pc = "check"
    /\ \E lookup \in {"Err", "None", "Some"} :
        LET name == ResolvedName(opts, tables[i])
            wr == [w[i] EXCEPT
                      !.name = name,
                      !.db0 = RowsOf(db, name),
                      !.stmts = <<Issued(ShowTablesSql(name), lookup # "Err",
                                         lookup = "Some")>>]
        IN  w' = [w EXCEPT ![i] =
                    IF check_table_exists(lookup) # "Ok"
                    THEN [wr EXCEPT !.pc = "ret", !.res = ErrResult]
                    ELSE IF AfterCheck(opts) = "clear"
                         THEN [wr EXCEPT !.pc = "clear"]
                         ELSE EnterRows(wr, tables[i], opts)]
    /\ UNCHANGED <<file, opts, pc, tables, cur, db, out, probe>>

\* import_table_to_database, 130-132: DELETE FROM the table.
Clear(i) ==
    /\ w[i].pc = "clear"
    /\ \E ok \in BOOLEAN :
        LET stmt == DeleteSql(w[i].name)
            wr == [w[i] EXCEPT !.stmts = Append(@, Issued(stmt, ok, FALSE))]
        IN  /\ db' = IF ok THEN Applied(db, stmt) ELSE db
            /\ w' = [w EXCEPT ![i] = Cleared(wr, tables[i], opts, ok)]
    /\ UNCHANGED <<file, opts, pc, tables, cur, out, probe>>

\* import_table_to_database, 135-139: a row that deserialised is inserted.
InsertRow(i) ==
    /\ w[i].pc = "rows"
    /\ LET nx == IterNext(tables[i].range, w[i].it)
       IN  /\ nx.some
           /\ nx.item.ok
           /\ \E ok \in BOOLEAN :
               LET stmt == make_insert_sql(w[i].name, tables[i].fields, nx.item.row)
                   wr == [w[i] EXCEPT
                             !.it = nx.it,
                             !.count = CountAfter(@, TRUE),
                             !.stmts = Append(@, Issued(stmt, ok, FALSE))]
               IN  /\ db' = IF ok THEN Applied(db, stmt) ELSE db
                   /\ w' = [w EXCEPT ![i] = Inserted(wr, ok)]
    /\ UNCHANGED <<file, opts, pc, tables, cur, out, probe>>

\* import_table_to_database, 140-142: a row that did not is warned about.
SkipRow(i) ==
    /\ w[i].pc = "rows"
    /\ LET nx == IterNext(tables[i].range, w[i].it)
       IN  /\ nx.some
           /\ ~nx.item.ok
           /\ w' = [w EXCEPT ![i] = [@ EXCEPT !.it = nx.it,
                                              !.count = CountAfter(@, FALSE)]]
    /\ UNCHANGED <<file, opts, pc, tables, cur, db, out, probe>>

\* import_table_to_database, 143-145: the rows are over, Ok((count, name)).
FinishRows(i) ==
    /\ w[i].pc = "rows"
    /\ LET nx == IterNext(tables[i].range, w[i].it)
       IN  /\ ~nx.some
           /\ w' = [w EXCEPT ![i] = [@ EXCEPT !.it = nx.it, !.pc = "ret",
                                   !.res = OkResult(w[i].count, w[i].name)]]
    /\ UNCHANGED <<file, opts, pc, tables, cur, db, out, probe>>

\* The thread's closure, 238-241: one line for the result, and the thread ends.
Report(i) ==
    /\ w[i].pc = "ret"
    /\ out' = out \o ReportLine(i, w[i].res)
    /\ w' = [w EXCEPT ![i] = [@ EXCEPT !.pc = "done",
                                       !.db1 = RowsOf(db, w[i].name)]]
    /\ UNCHANGED <<file, opts, pc, tables, cur, db, probe>>

Next ==
    \/ ParseExcel
    \/ Spawn
    \/ Join
    \/ Exit
    \/ \E i \in 1..Len(w) : CheckTableExists(i)
    \/ \E i \in 1..Len(w) : Clear(i)
    \/ \E i \in 1..Len(w) : InsertRow(i)
    \/ \E i \in 1..Len(w) : SkipRow(i)
    \/ \E i \in 1..Len(w) : FinishRows(i)
    \/ \E i \in 1..Len(w) : Report(i)

Spec == Init /\ [][Next]_vars

\* The threads are scheduled fairly: a step that stays possible is taken.
FairSpec == FairInit /\ [][Next]_vars /\ WF_vars(Next)

-----------------------------------------------------------------------------
(* Table::iter_rows called on one table: each call builds an iterator,     *)
(* which is then drained with next().                                      *)

IdleMain ==
    /\ file = [ok |-> FALSE, sheets |-> <<>>]
    /\ opts = [excel |-> MainPath, clear |-> FALSE, skip |-> 0,
               django_style |-> FALSE]
    /\ pc = "exit"
    /\ tables = <<>>
    /\ cur = 1
    /\ w = <<>>
    /\ db = <<>>
    /\ out = <<>>

ProbeTables ==
    {t \in {TableNew(<<"t">>, r) : r \in Ranges} : t.ok}

RowsInit ==
    /\ IdleMain
    /\ probe \in [kind : {"rows"}, table : ProbeTables, active : {FALSE},
                  skip : {0}, it : {NoIter}, yielded : {<<>>}, calls : {<<>>}]

\* table.iter_rows(skip)
CallIterRows ==
    /\ probe.kind = "rows"
    /\ ~probe.active
    /\ Len(probe.calls) < MaxCalls
    /\ \E skip \in 0..MaxSkip :
        LET it == iter_rows(probe.table, skip)
        IN  /\ it.ok
            /\ probe' = [probe EXCEPT !.active = TRUE, !.skip = skip, !.it = it,
                                      !.yielded = <<>>]
    /\ UNCHANGED <<file, opts, pc, tables, cur, w, db, out>>

\* next() on the iterator of the last call, to its end.
RowsNext ==
    /\ probe.kind = "rows"
    /\ probe.active
    /\ LET nx == IterNext(probe.table.range, probe.it)
       IN  IF nx.some
           THEN probe' = [probe EXCEPT !.it = nx.it,
                                       !.yielded = Append(@, nx.item)]
           ELSE probe' = [probe EXCEPT !.it = nx.it, !.active = FALSE,
                              !.calls = Append(@, [skip |-> probe.skip,
                                                   yielded |-> probe.yielded])]
    /\ UNCHANGED <<file, opts, pc, tables, cur, w, db, out>>

RowsStep == CallIterRows \/ RowsNext

RowsSpec == RowsInit /\ [][RowsStep]_vars

-----------------------------------------------------------------------------
(* make_django_style_table_name applied to a path and a table name.        *)

PathChars == {"a", "B", "/", "."}
NameChars == {"a", "B", "_"}

NameInit ==
    /\ IdleMain
    /\ probe \in [kind : {"name"}, path : SeqsUpTo(PathChars, MaxPathLen),
                  name : SeqsUpTo(NameChars, MaxNameLen), done : {FALSE},
                  result : {<<>>}]

MakeName ==
    /\ probe.kind = "name"
    /\ ~probe.done
    /\ probe' = [probe EXCEPT !.done = TRUE,
                    !.result = make_django_style_table_name(probe.path, probe.name)]
    /\ UNCHANGED <<file, opts, pc, tables, cur, w, db, out>>

NameSpec == NameInit /\ [][MakeName]_vars

-----------------------------------------------------------------------------
(* Properties of the import runs.                                          *)

Workers == 1..Len(w)

Finished(i) == w[i].pc \in {"ret", "done"}

\* The existence check of worker i came back with no row.
LookupEmpty(i) ==
    /\ Len(w[i].stmts) >= 1
    /\ w[i].stmts[1].kind = "SHOW"
    /\ w[i].stmts[1].ok
    /\ ~w[i].stmts[1].found

LookupFound(i) ==
    /\ Len(w[i].stmts) >= 1
    /\ w[i].stmts[1].kind = "SHOW"
    /\ w[i].stmts[1].found

\* The rows the target table of worker i holds as the worker sees it last.
TargetRows(i) == IF w[i].pc = "done" THEN w[i].db1 ELSE RowsOf(db, w[i].name)

\* The values of the INSERT statements of worker i that succeeded, in order.
InsertedRows(i) ==
    LET sel == SelectSeq(w[i].stmts, LAMBDA st : st.kind = "INSERT" /\ st.ok)
    IN  [k \in 1..Len(sel) |-> sel[k].vals]

\* The data rows of a table that iter_rows(skip) reaches and that deserialise.
GoodRowsAfter(table, skip) ==
    {k \in (2 + skip)..Len(table.range) : RowOk(table.range[k])}

BadRowsAfter(table, skip) ==
    {k \in (2 + skip)..Len(table.range) : ~RowOk(table.range[k])}

\* C1: when the existence lookup returns no row, the import returns an error,
\* issues neither a DELETE nor an INSERT, and leaves the table's rows as they
\* were.
C1_FailFastOnMissingTable ==
    \A i \in Workers :
        LookupEmpty(i) =>
            /\ Finished(i)
            /\ w[i].res.tag = "Err"
            /\ Len(w[i].stmts) = 1
            /\ TargetRows(i) = w[i].db0

\* A worker with rows to load and the clear flag set found no table, after an
\* earlier worker had loaded rows into a table of that name.
C1_Witness ==
    \E i \in Workers :
        /\ LookupEmpty(i)
        /\ w[i].pc = "done"
        /\ opts.clear
        /\ w[i].db0 # <<>>
        /\ GoodRowsAfter(tables[i], opts.skip) # {}

\* C2: with the clear flag the DELETE is the statement right after the
\* successful existence check and before every INSERT; a DELETE that fails
\* ends the import with an error and no INSERT; without the flag there is no
\* DELETE.
C2_ClearBeforeLoad ==
    \A i \in Workers :
        LET st == w[i].stmts
        IN  /\ \A k \in 1..Len(st) :
                  st[k].kind = "DELETE" => opts.clear /\ k = 2 /\ LookupFound(i)
            /\ \A k \in 1..Len(st) :
                  (st[k].kind = "INSERT" /\ opts.clear) =>
                      k > 2 /\ st[2].kind = "DELETE" /\ st[2].ok
            /\ (opts.clear /\ LookupFound(i) /\ w[i].pc \in {"rows", "ret", "done"})
                  => Len(st) >= 2 /\ st[2].kind = "DELETE"
            /\ (Len(st) >= 2 /\ st[2].kind = "DELETE" /\ ~st[2].ok)
                  => Len(st) = 2 /\ Finished(i) /\ w[i].res.tag = "Err"

\* One worker's DELETE failed with rows waiting, another's succeeded and was
\* followed by an INSERT.
C2_Witness ==
    \E i, j \in Workers :
        /\ w[i].pc = "done"
        /\ Len(w[i].stmts) = 2
        /\ ~w[i].stmts[2].ok
        /\ GoodRowsAfter(tables[i], opts.skip) # {}
        /\ w[j].pc = "done"
        /\ Len(w[j].stmts) >= 3
        /\ w[j].stmts[2].kind = "DELETE"
        /\ w[j].stmts[3].kind = "INSERT"

\* C3: an INSERT that fails is the last statement of its import, the import
\* returns an error, and the rows inserted before it stay in the table.
C3_InsertFailureAborts ==
    \A i \in Workers :
        LET st == w[i].stmts
        IN  \A k \in 1..Len(st) :
                (st[k].kind = "INSERT" /\ ~st[k].ok) =>
                    /\ k = Len(st)
                    /\ Finished(i)
                    /\ w[i].res.tag = "Err"
                    /\ TargetRows(i) =
                          (IF st[2].kind = "DELETE" THEN <<>> ELSE w[i].db0)
                              \o InsertedRows(i)

\* An import whose second INSERT failed after its first had succeeded, with a
\* further row left unread.
C3_Witness ==
    \E i \in Workers :
        /\ w[i].pc = "done"
        /\ Len(InsertedRows(i)) >= 1
        /\ ~w[i].stmts[Len(w[i].stmts)].ok
        /\ w[i].stmts[Len(w[i].stmts)].kind = "INSERT"
        /\ w[i].it.pos <= Len(tables[i].range)

\* C4: a row that fails to deserialise neither aborts the import nor counts:
\* an import ends in error only on a failed statement or an empty lookup, and
\* the count of Ok((count, name)) is the number of INSERTs that succeeded,
\* which is the number of rows past the skip that deserialise.
C4_CountIsInsertedRows ==
    \A i \in Workers :
        /\ w[i].res.tag = "Ok" =>
              /\ w[i].res.count = Len(InsertedRows(i))
              /\ w[i].res.count = Cardinality(GoodRowsAfter(tables[i], opts.skip))
              /\ w[i].res.name = w[i].name
        /\ w[i].res.tag = "Err" =>
              \/ LookupEmpty(i)
              \/ ~w[i].stmts[Len(w[i].stmts)].ok

\* An import that returned Ok with a positive count over a table with a row
\* that does not deserialise.
C4_Witness ==
    \E i \in Workers :
        /\ w[i].pc = "done"
        /\ w[i].res.tag = "Ok"
        /\ w[i].res.count >= 1
        /\ BadRowsAfter(tables[i], opts.skip) # {}

\* The lines printed for the table of worker i.
LinesOf(i) == SelectSeq(out, LAMBDA l : l.worker = i)

AllReported ==
    /\ pc = "exit"
    /\ Len(w) = Len(tables)
    /\ \A i \in 1..Len(tables) :
          /\ w[i].pc = "done"
          /\ Len(LinesOf(i)) = 1
          /\ LinesOf(i)[1].ok = (w[i].res.tag = "Ok")
          /\ LinesOf(i)[1].count = w[i].res.count

\* The thread of worker i has been spawned and has not ended.
InProgress(i) == i \in Workers /\ w[i].pc # "done"

\* C6: the workers run in parallel: once the workbook is parsed, the thread of
\* the next table is launched without waiting for the threads already
\* running, so two imports can be in progress together.
C6_NextWorkerLaunchesWhileOthersRun ==
    (\E i \in Workers : InProgress(i)) /\ Len(w) < Len(tables)
        => ENABLED Spawn

\* C7: once the workbook has parsed, every table is imported and reported
\* whatever happened to the others: no table ever has two lines, and the run
\* reaches its end with exactly one line for each table, the success line of
\* an Ok result or the error line of an Err.
C7_EveryTableReportsOnce ==
    /\ [](\A i \in Workers : Len(LinesOf(i)) <= 1)
    /\ [](pc = "spawn" => <>AllReported)

\* The run is over with two tables: the first import failed, the second
\* loaded a row, and each printed its line.
C7_Witness ==
    /\ AllReported
    /\ Len(tables) = 2
    /\ w[1].res.tag = "Err"
    /\ w[2].res.tag = "Ok"
    /\ w[2].res.count >= 1

\* Two imports in a row of tables with one target, one column list and one
\* range.
SameSource(i, j) ==
    /\ w[i].name = w[j].name
    /\ tables[i].fields = tables[j].fields
    /\ tables[i].range = tables[j].range

\* C8: importing the same unchanged table twice in a row, no statement
\* failing, returns the same count both times; with clear the table holds the
\* same rows after the second import as after the first, without clear it
\* holds what it held before the first and then every imported row twice.
C8_ClearAndLoadIdempotent ==
    \A i, j \in Workers :
        (/\ j = i + 1
         /\ w[i].pc = "done" /\ w[j].pc = "done"
         /\ w[i].res.tag = "Ok" /\ w[j].res.tag = "Ok"
         /\ SameSource(i, j)) =>
            /\ w[i].res.count = w[j].res.count
            /\ opts.clear => w[j].db1 = w[i].db1 /\ w[i].db1 = InsertedRows(i)
            /\ ~opts.clear =>
                  w[j].db1 = w[i].db0 \o InsertedRows(i) \o InsertedRows(i)

\* With clear, two imports of one source in a row, each loading a row.
C8_Witness ==
    /\ opts.clear
    /\ Len(w) = 2
    /\ w[1].pc = "done" /\ w[2].pc = "done"
    /\ w[1].res.tag = "Ok" /\ w[2].res.tag = "Ok"
    /\ SameSource(1, 2)
    /\ w[1].res.count >= 1

\* C10: every INSERT lists as many column identifiers as values.
C10_ColumnsMatchValues ==
    \A i \in Workers :
        \A k \in 1..Len(w[i].stmts) :
            w[i].stmts[k].kind = "INSERT" =>
                Len(w[i].stmts[k].cols) = Len(w[i].stmts[k].vals)

-----------------------------------------------------------------------------
(* Properties of iter_rows.                                                *)

\* The rows of the stored range, header row included.
TotalRows == Len(probe.table.range)

\* What deserialising row k of the stored range gives.
RowAt(k) == DeserRow(probe.table.range[k])

Drop(q, n) == SubSeq(q, n + 1, Len(q))

\* C5 as stated: rows(skip) yields max(0, R - skip) elements of a range of R
\* rows, and rows(0) starts with the header row.
C5_RowsIncludeHeader ==
    probe.kind = "rows" =>
        \A c \in 1..Len(probe.calls) :
            LET call == probe.calls[c]
            IN  /\ Len(call.yielded) = Max(0, TotalRows - call.skip)
                /\ \A k \in 1..Len(call.yielded) :
                      call.yielded[k] = RowAt(call.skip + k)

\* C5 as the code has it: the header row is read when the iterator is built
\* and is never yielded, so rows(skip) yields max(0, (R - 1) - skip) elements,
\* element k being row 1 + skip + k of the range and element skip + k of
\* rows(0); every call starts again from the first row after the header.
C5_RowsSkipAfterHeader ==
    probe.kind = "rows" =>
        /\ \A c \in 1..Len(probe.calls) :
              LET call == probe.calls[c]
              IN  /\ Len(call.yielded) = Max(0, (TotalRows - 1) - call.skip)
                  /\ \A k \in 1..Len(call.yielded) :
                        call.yielded[k] = RowAt(1 + call.skip + k)
        /\ \A c, d \in 1..Len(probe.calls) :
              probe.calls[c].skip = 0 =>
                  probe.calls[d].yielded =
                      Drop(probe.calls[c].yielded, probe.calls[d].skip)

\* Two calls on a table of several data rows: the first skipped one row and
\* yielded the rest, the second, with skip 0, yielded them all again.
C5_Witness ==
    /\ probe.kind = "rows"
    /\ Len(probe.calls) = 2
    /\ probe.calls[1].skip = 1
    /\ Len(probe.calls[1].yielded) >= 2
    /\ probe.calls[2].skip = 0
    /\ Len(probe.calls[2].yielded) = TotalRows - 1

-----------------------------------------------------------------------------
(* Properties of make_django_style_table_name.                             *)

\* The file name of a path, read from its end: trailing separators and "."
\* components fall away, the name is what follows the last separator, and
\* ".." is no file name.
RECURSIVE Trimmed(_)
Trimmed(p) ==
    IF p = <<>> THEN p
    ELSE IF p[Len(p)] = "/" THEN Trimmed(SubSeq(p, 1, Len(p) - 1))
    ELSE IF p = <<".">> THEN <<>>
    ELSE IF Len(p) >= 2 /\ p[Len(p)] = "." /\ p[Len(p) - 1] = "/"
         THEN Trimmed(SubSeq(p, 1, Len(p) - 1))
    ELSE p

BaseName(p) ==
    LET t == Trimmed(p)
        S == {i \in 1..Len(t) : t[i] = "/"}
        from == IF S = {} THEN 1 ELSE 1 + CHOOSE i \in S : \A j \in S : j <= i
        b == SubSeq(t, from, Len(t))
    IN  IF b = <<".", ".">> THEN <<>> ELSE b

\* s is the file name b without its extension.
IsStemOf(s, b) ==
    \/ s = b /\ \A i \in 2..Len(b) : b[i] # "."
    \/ /\ Len(s) >= 1
       /\ Len(s) < Len(b)
       /\ s = SubSeq(b, 1, Len(s))
       /\ b[Len(s) + 1] = "."
       /\ \A i \in (Len(s) + 2)..Len(b) : b[i] # "."

\* The result splits into a stem, an underscore and the name in lower case.
NameParts ==
    LET r == probe.result
        k == Len(r) - Len(probe.name)
    IN  [ok |-> k >= 1 /\ r[k] = "_",
         stem |-> SubSeq(r, 1, k - 1),
         name |-> SubSeq(r, k + 1, Len(r))]

LowerCased(name) == [i \in 1..Len(name) |-> to_lowercase_char(name[i])]

\* C9 as stated: the result is the lower-cased stem of the path, "_" and the
\* lower-cased name.
C9_StemLowerCased ==
    (probe.kind = "name" /\ probe.done) =>
        /\ NameParts.ok
        /\ NameParts.name = LowerCased(probe.name)
        /\ \E s \in SeqsUpTo(PathChars, MaxPathLen) :
              /\ IsStemOf(s, BaseName(probe.path))
              /\ NameParts.stem = LowerCased(s)

\* C9 as the code has it: the result is the stem of the path as it is
\* written, "_" and the lower-cased name; the stem is empty when the path has
\* no file name.
C9_StemKeptNameLowerCased ==
    (probe.kind = "name" /\ probe.done) =>
        /\ NameParts.ok
        /\ NameParts.name = LowerCased(probe.name)
        /\ IsStemOf(NameParts.stem, BaseName(probe.path))

\* A path with a directory and an extension, an upper-case letter in the stem
\* and in the name.
C9_Witness ==
    /\ probe.kind = "name"
    /\ probe.done
    /\ probe.path = <<"/", "B", ".">>
    /\ probe.name = <<"B", "a">>
    /\ probe.result = <<"B", "_", "b", "a">>

====
